---- MODULE Spec2Model ----
(***************************************************************************)
(* Model of the JNI bridge                                                 *)
(*   Java_com_omariskandarani_livelatexapp_LatexCompiler_compilePdf        *)
(* (src/src/lib.rs).  One invocation decodes two JString handles, calls    *)
(* tectonic::latex_to_pdf, creates the destination file, writes the PDF    *)
(* bytes with write_all and maps the closure's Result to a jboolean.       *)
(*                                                                         *)
(* The environment of the function is modelled by what the calls it makes  *)
(* can do: JNIEnv::get_string fails on a null or non-String handle,        *)
(* latex_to_pdf returns bytes, returns an error or panics, File::create    *)
(* fails when the parent directory is missing (or for any other I/O        *)
(* reason), and write_all is a loop of write calls, each of which writes   *)
(* a non-empty part of what is left or fails.                              *)
(*                                                                         *)
(* A second copy of the program (twin) is run in lockstep on the same      *)
(* inputs and the same environment, with a different cache_dir handle.     *)
(***************************************************************************)
EXTENDS Naturals, Sequences, FiniteSets

VARIABLES
    fs,       \* the filesystem: path -> NoFile or File(bytes)
    call,     \* host thread -> the frame of its current compilePdf invocation
    twin,     \* [fs, call] of the lockstep copy run with another cache_dir
    budget,   \* host thread -> invocations the host will still make
    last,     \* summary of the invocation that preceded the current one
    overlap   \* host thread -> its create..write window met another call's

vars == <<fs, call, twin, budget, last, overlap>>

----------------------------------------------------------------------------
(* Bounds *)

MaxCalls == 2

Threads == {1, 2}

----------------------------------------------------------------------------
(* The host's values *)

NoString == "<unset>"
NoFile == [exists |-> FALSE, bytes |-> <<>>]
File(b) == [exists |-> TRUE, bytes |-> b]

NullHandle == [kind |-> "null", chars |-> NoString]
ObjectHandle == [kind |-> "object", chars |-> NoString]
StringHandle(s) == [kind |-> "string", chars |-> s]

DocHello == "\\documentclass{article}\\begin{document}Hello\\end{document}"
DocBye == "\\documentclass{article}\\begin{document}Bye\\end{document}"
DocUnterminated == "\\begin{document}"
DocFatal == "\\documentclass{article}\\fatal"

TmpOut == "/tmp/out.pdf"
NoDirOut == "/nonexistent_dir/out.pdf"

Paths == {TmpOut, NoDirOut}
Dirs == {"/tmp"}

Parent(p) == IF p = TmpOut THEN "/tmp" ELSE "/nonexistent_dir"

SrcHandles ==
    {NullHandle, StringHandle(DocHello), StringHandle(DocBye),
     StringHandle(DocUnterminated), StringHandle(DocFatal)}

PathHandles == {NullHandle, StringHandle(TmpOut), StringHandle(NoDirOut)}

CacheHandles == {NullHandle, ObjectHandle, StringHandle("/cache")}

OtherCache(h) ==
    IF h = NullHandle THEN ObjectHandle
    ELSE IF h = ObjectHandle THEN StringHandle("/cache")
    ELSE NullHandle

OldContent == <<9, 9, 9, 9>>

----------------------------------------------------------------------------
(* The calls compilePdf makes *)

\* env.get_string(&h)?.into(): Err for a null handle or an object that is
\* no java.lang.String, the decoded text otherwise.
GetString(h) ==
    IF h.kind = "string"
    THEN [ok |-> TRUE, val |-> h.chars]
    ELSE [ok |-> FALSE, val |-> NoString]

\* tectonic::latex_to_pdf(&latex): a function of the source.  It returns the
\* PDF bytes, returns an error, or panics.
LatexToPdf(latex) ==
    IF latex = DocHello THEN [out |-> "ok", bytes |-> <<1, 2, 3>>]
    ELSE IF latex = DocBye THEN [out |-> "ok", bytes |-> <<4>>]
    ELSE IF latex = DocFatal THEN [out |-> "panic", bytes |-> <<>>]
    ELSE [out |-> "err", bytes |-> <<>>]

\* File::create(&out_path): open(O_WRONLY | O_CREAT | O_TRUNC).  io is what
\* the operating system answers where the parent directory exists.
FileCreateAppend(f, path, io) ==
    IF path \notin Paths \/ Parent(path) \notin Dirs \/ io = "err"
    THEN [ok |-> FALSE, fs |-> f, pos |-> 0]
    ELSE [ok |-> TRUE,
          fs |-> IF f[path].exists THEN f ELSE [f EXCEPT ![path] = File(<<>>)],
          pos |-> Len(f[path].bytes)]

FileCreateNoTruncate(f, path, io) ==
    IF path \notin Paths \/ Parent(path) \notin Dirs \/ io = "err"
    THEN [ok |-> FALSE, fs |-> f, pos |-> 0]
    ELSE [ok |-> TRUE,
          fs |-> IF f[path].exists THEN f ELSE [f EXCEPT ![path] = File(<<>>)],
          pos |-> 0]

FileCreateMkdirs(f, path, io) ==
    IF path \notin Paths \/ io = "err"
    THEN [ok |-> FALSE, fs |-> f, pos |-> 0]
    ELSE [ok |-> TRUE, fs |-> [f EXCEPT ![path] = File(<<>>)], pos |-> 0]

FileCreate(f, path, io) ==
    IF path \notin Paths \/ Parent(path) \notin Dirs \/ io = "err"
    THEN [ok |-> FALSE, fs |-> f, pos |-> 0]
    ELSE [ok |-> TRUE, fs |-> [f EXCEPT ![path] = File(<<>>)], pos |-> 0]

\* One write(2) of bytes at offset pos of a file opened without O_APPEND: the
\* bytes replace what is there and extend the file, a gap reads as zeros.
WriteAt(content, pos, bytes) ==
    LET end == pos + Len(bytes)
        n == IF end > Len(content) THEN end ELSE Len(content)
    IN [i \in 1..n |->
            IF i > pos /\ i <= end THEN bytes[i - pos]
            ELSE IF i <= Len(content) THEN content[i]
            ELSE 0]

\* match result { Ok(()) => 1, Err(_) => 0 }
MatchAlwaysTrue(result) == 1

MatchResult(result) == IF result = "Ok" THEN 1 ELSE 0

----------------------------------------------------------------------------
(* The frame of one invocation *)

StepOrder == <<"decode_src", "decode_path", "compile", "create", "write">>

IdleCall ==
    [pc |-> "idle", latex_src |-> NullHandle, output_path |-> NullHandle,
     cache_dir |-> NullHandle, latex |-> NoString, out_path |-> NoString,
     pdf_bytes |-> <<>>, f_open |-> FALSE, f_pos |-> 0, written |-> 0,
     result |-> "none", ret |-> 0, steps |-> <<>>, failed |-> "none",
     pre |-> [p \in Paths |-> NoFile]]

NewCall(src, path, cache, f) ==
    [IdleCall EXCEPT !.pc = "decode_src", !.latex_src = src,
                     !.output_path = path, !.cache_dir = cache, !.pre = f]

\* `?` on an Err: the closure returns the error, no later line runs.
Fail(c, step) ==
    [c EXCEPT !.pc = "match", !.result = "Err", !.failed = step,
              !.f_open = FALSE]

Entered(c, step) == [c EXCEPT !.steps = Append(@, step)]

----------------------------------------------------------------------------
(* The lines of compilePdf, each a function of the frame and the filesystem *)

Unchanged(c, f) == [call |-> c, fs |-> f]

\* let latex: String = env.get_string(&latex_src)?.into();
DecodeSrcStep(c, f) ==
    LET r == GetString(c.latex_src)
        e == Entered(c, "decode_src")
    IN IF r.ok
       THEN Unchanged([e EXCEPT !.latex = r.val, !.pc = "decode_path"], f)
       ELSE Unchanged(Fail(e, "decode_src"), f)

\* let out_path: String = env.get_string(&output_path)?.into();
DecodePathAndCacheStep(c, f) ==
    LET r == GetString(c.output_path)
        k == GetString(c.cache_dir)
        e == Entered(c, "decode_path")
    IN IF r.ok /\ k.ok
       THEN Unchanged([e EXCEPT !.out_path = r.val, !.pc = "compile"], f)
       ELSE Unchanged(Fail(e, "decode_path"), f)

DecodePathStep(c, f) ==
    LET r == GetString(c.output_path)
        e == Entered(c, "decode_path")
    IN IF r.ok
       THEN Unchanged([e EXCEPT !.out_path = r.val, !.pc = "compile"], f)
       ELSE Unchanged(Fail(e, "decode_path"), f)

\* let pdf_bytes = tectonic::latex_to_pdf(&latex).map_err(|e| e.to_string())?;
\* A panic of the engine is not an Err: it unwinds out of the closure and
\* out of the extern "system" function, where the build either aborts the
\* process or lets the unwinding reach the host's frames (abi).
CompileAfterCreateStep(c, f, abi) ==
    LET r == LatexToPdf(c.latex)
        e == Entered(c, "compile")
        g == FileCreate(f, c.out_path, "ok").fs
    IN IF r.out = "ok"
       THEN Unchanged([e EXCEPT !.pdf_bytes = r.bytes, !.pc = "create"], g)
       ELSE IF r.out = "err"
       THEN Unchanged(Fail(e, "compile"), g)
       ELSE Unchanged([e EXCEPT !.pc = abi], g)

CompileStep(c, f, abi) ==
    LET r == LatexToPdf(c.latex)
        e == Entered(c, "compile")
    IN IF r.out = "ok"
       THEN Unchanged([e EXCEPT !.pdf_bytes = r.bytes, !.pc = "create"], f)
       ELSE IF r.out = "err"
       THEN Unchanged(Fail(e, "compile"), f)
       ELSE Unchanged([e EXCEPT !.pc = abi], f)

\* let mut f = File::create(&out_path)?;
CreateStep(c, f, io) ==
    LET r == FileCreate(f, c.out_path, io)
        e == Entered(c, "create")
    IN IF r.ok
       THEN [call |-> [e EXCEPT !.f_open = TRUE, !.f_pos = r.pos,
                                !.written = 0, !.pc = "write"],
             fs |-> r.fs]
       ELSE [call |-> Fail(e, "create"), fs |-> r.fs]

\* f.write_all(&pdf_bytes)?  is entered once; its loop calls write until the
\* buffer is empty.
EnterWrite(c) ==
    IF c.steps # <<>> /\ c.steps[Len(c.steps)] = "write"
    THEN c
    ELSE Entered(c, "write")

Remaining(c) == Len(c.pdf_bytes) - c.written

\* One write call of the loop that accepts n bytes of what is left.
WriteOnceStep(c, f, n) ==
    LET e == EnterWrite(c)
        bytes == SubSeq(c.pdf_bytes, c.written + 1, c.written + n)
    IN [call |-> [e EXCEPT !.written = Len(c.pdf_bytes), !.f_pos = @ + n],
        fs |-> [f EXCEPT ![c.out_path] = File(WriteAt(@.bytes, c.f_pos, bytes))]]

WriteChunkStep(c, f, n) ==
    LET e == EnterWrite(c)
        bytes == SubSeq(c.pdf_bytes, c.written + 1, c.written + n)
    IN [call |-> [e EXCEPT !.written = @ + n, !.f_pos = @ + n],
        fs |-> [f EXCEPT ![c.out_path] = File(WriteAt(@.bytes, c.f_pos, bytes))]]

\* One write call of the loop that returns Err (or Ok(0), which write_all
\* turns into ErrorKind::WriteZero): `?` leaves the closure, f is dropped.
WriteFailRemoveStep(c, f) ==
    [call |-> Fail(EnterWrite(c), "write"),
     fs |-> [f EXCEPT ![c.out_path] = NoFile]]

WriteFailStep(c, f) == Unchanged(Fail(EnterWrite(c), "write"), f)

\* The buffer is empty: write_all returns Ok(()), the closure ends with
\* Ok(()) and f is dropped.
WriteDoneStep(c, f) ==
    Unchanged([EnterWrite(c) EXCEPT !.pc = "match", !.result = "Ok",
                                    !.f_open = FALSE], f)

\* match result { Ok(()) => 1, Err(_) => 0 }  and the return to the host.
ReturnStep(c, f) ==
    Unchanged([c EXCEPT !.pc = "returned", !.ret = MatchResult(c.result)], f)

----------------------------------------------------------------------------
(* The state machine *)

Dead(c) == c.pc \in {"aborted", "unwound"}

\* A panic that left compilePdf ended the process, or left it undefined.
ProcessDead == \E t \in Threads : Dead(call[t])

Summary(c, f) ==
    [valid |-> TRUE, latex_src |-> c.latex_src, output_path |-> c.output_path,
     ret |-> c.ret, failed |-> c.failed,
     content |-> IF c.out_path \in Paths THEN f[c.out_path] ELSE NoFile]

NoSummary ==
    [valid |-> FALSE, latex_src |-> NullHandle, output_path |-> NullHandle,
     ret |-> 0, failed |-> "none", content |-> NoFile]

InitFs == {[p \in Paths |-> IF p = TmpOut THEN x ELSE NoFile] :
              x \in {NoFile, File(OldContent)}}

InitWith(b) ==
    /\ fs \in InitFs
    /\ call = [t \in Threads |-> IdleCall]
    /\ twin = [fs |-> fs, call |-> call]
    /\ budget = b
    /\ last = NoSummary
    /\ overlap = [t \in Threads |-> FALSE]

\* One host thread calls compilePdf, MaxCalls times, one call after another.
Init == InitWith([t \in Threads |-> IF t = 1 THEN MaxCalls ELSE 0])

\* Two host threads call compilePdf once each, with no synchronisation.
InitConc == InitWith([t \in Threads |-> 1])

\* The lockstep copy takes the step the program takes, on its own state.
Shadow(t, r) ==
    twin' = IF twin.call[t].pc = call[t].pc
            THEN [fs |-> r.fs, call |-> [twin.call EXCEPT ![t] = r.call]]
            ELSE twin

Apply(t, r) ==
    /\ call' = [call EXCEPT ![t] = r.call]
    /\ fs' = r.fs

At(t, pc) == ~ProcessDead /\ call[t].pc = pc

\* The host calls compilePdf(latex_src, output_path, cache_dir).
Invoke(t) ==
    /\ ~ProcessDead
    /\ call[t].pc \in {"idle", "returned"}
    /\ budget[t] > 0
    /\ \E src \in SrcHandles, path \in PathHandles, cache \in CacheHandles :
          /\ call' = [call EXCEPT ![t] = NewCall(src, path, cache, fs)]
          /\ twin' = [twin EXCEPT
                        !.call[t] = NewCall(src, path, OtherCache(cache), twin.fs)]
    /\ budget' = [budget EXCEPT ![t] = @ - 1]
    /\ last' = IF call[t].pc = "returned" THEN Summary(call[t], fs) ELSE last
    /\ overlap' = [overlap EXCEPT ![t] = FALSE]
    /\ UNCHANGED fs

DecodeSrc(t) ==
    /\ At(t, "decode_src")
    /\ Apply(t, DecodeSrcStep(call[t], fs))
    /\ Shadow(t, DecodeSrcStep(twin.call[t], twin.fs))
    /\ UNCHANGED <<budget, last, overlap>>

DecodePath(t) ==
    /\ At(t, "decode_path")
    /\ Apply(t, DecodePathStep(call[t], fs))
    /\ Shadow(t, DecodePathStep(twin.call[t], twin.fs))
    /\ UNCHANGED <<budget, last, overlap>>

Compile(t) ==
    /\ At(t, "compile")
    /\ \E abi \in {"aborted", "unwound"} :
          /\ Apply(t, CompileStep(call[t], fs, abi))
          /\ Shadow(t, CompileStep(twin.call[t], twin.fs, abi))
    /\ UNCHANGED <<budget, last, overlap>>

\* The calls that hold the same file open between their create and the end
\* of their write_all.
Writers(t) ==
    {u \in Threads \ {t} :
        call[u].pc = "write" /\ call[u].out_path = call[t].out_path}

Create(t) ==
    /\ At(t, "create")
    /\ \E io \in {"ok", "err"} :
          /\ Apply(t, CreateStep(call[t], fs, io))
          /\ Shadow(t, CreateStep(twin.call[t], twin.fs, io))
    /\ overlap' = IF call'[t].pc = "write" /\ Writers(t) # {}
                  THEN [u \in Threads |-> overlap[u] \/ u \in Writers(t) \cup {t}]
                  ELSE overlap
    /\ UNCHANGED <<budget, last>>

WriteChunk(t) ==
    /\ At(t, "write")
    /\ \E n \in 1..Remaining(call[t]) :
          /\ Apply(t, WriteChunkStep(call[t], fs, n))
          /\ Shadow(t, WriteChunkStep(twin.call[t], twin.fs, n))
    /\ UNCHANGED <<budget, last, overlap>>

WriteFail(t) ==
    /\ At(t, "write")
    /\ Remaining(call[t]) > 0
    /\ Apply(t, WriteFailStep(call[t], fs))
    /\ Shadow(t, WriteFailStep(twin.call[t], twin.fs))
    /\ UNCHANGED <<budget, last, overlap>>

WriteDone(t) ==
    /\ At(t, "write")
    /\ Remaining(call[t]) = 0
    /\ Apply(t, WriteDoneStep(call[t], fs))
    /\ Shadow(t, WriteDoneStep(twin.call[t], twin.fs))
    /\ UNCHANGED <<budget, last, overlap>>

Return(t) ==
    /\ At(t, "match")
    /\ Apply(t, ReturnStep(call[t], fs))
    /\ Shadow(t, ReturnStep(twin.call[t], twin.fs))
    /\ UNCHANGED <<budget, last, overlap>>

Step(t) ==
    \/ DecodeSrc(t)
    \/ DecodePath(t)
    \/ Compile(t)
    \/ Create(t)
    \/ WriteChunk(t)
    \/ WriteFail(t)
    \/ WriteDone(t)
    \/ Return(t)

Next == \E t \in Threads : Invoke(t) \/ Step(t)

Spec == Init /\ [][Next]_vars

SpecConc == InitConc /\ [][Next]_vars

----------------------------------------------------------------------------
(* Vocabulary of the properties *)

Returned(c) == c.pc = "returned"

Invoked(c) == c.pc # "idle"

Range(s) == {s[i] : i \in 1..Len(s)}

IsPrefix(s, t) == Len(s) <= Len(t) /\ s = SubSeq(t, 1, Len(s))

IsProperPrefix(s, t) == Len(s) < Len(t) /\ s = SubSeq(t, 1, Len(s))

\* Every step of the pipeline ran and none of them failed.
AllStepsSucceeded(c) ==
    /\ c.steps = StepOrder
    /\ c.failed = "none"
    /\ c.written = Len(c.pdf_bytes)

\* The states of section 4.1: Running -> {Succeeded, Failed}.
CallState(c) ==
    IF Returned(c) /\ c.ret = 1 THEN "Succeeded"
    ELSE IF Returned(c) /\ c.ret = 0 THEN "Failed"
    ELSE "Running"

BothReturnedTrue ==
    /\ Returned(call[1]) /\ call[1].ret = 1
    /\ Returned(call[2]) /\ call[2].ret = 1
    /\ call[1].out_path = call[2].out_path
    /\ call[1].latex # call[2].latex

OneOfTheTwoPdfs ==
    fs[call[1].out_path] \in {File(call[1].pdf_bytes), File(call[2].pdf_bytes)}

----------------------------------------------------------------------------
(* The claims *)

\* C1: a call that has returned returned 1 exactly when decoding the source,
\* decoding the path, latex_to_pdf, File::create and write_all all succeeded
\* in that call, and returned 0 whichever of the five steps failed.
C1_ReturnIffAllSucceeded ==
    \A t \in Threads :
        LET c == call[t] IN
        Returned(c) =>
            /\ c.ret \in {0, 1}
            /\ (c.ret = 1 <=> AllStepsSucceeded(c))
            /\ (c.failed \in Range(StepOrder) => c.ret = 0)

C1_Witness ==
    /\ Returned(call[1]) /\ call[1].failed = "write" /\ call[1].ret = 0
    /\ last.valid /\ last.failed = "none" /\ last.ret = 1

\* C2: no invocation ends with a fault escaping to the host: every fault of
\* a step, a panic included, becomes the return value 0.
C2_NoFaultEscapes == \A t \in Threads : ~Dead(call[t])

\* C3: while the call has not reached File::create the filesystem is what it
\* was when the call began, and a call that failed in a decode or in the
\* engine returns 0 with the filesystem unchanged (an existing destination
\* file keeps its content).
C3_RejectedLeavesFsUnchanged ==
    \A t \in Threads :
        LET c == call[t] IN
        /\ (Invoked(c) /\ "create" \notin Range(c.steps)) => fs = c.pre
        /\ (Returned(c) /\ c.failed \in {"decode_src", "decode_path", "compile"})
              => (c.ret = 0 /\ fs = c.pre)

C3_Witness ==
    /\ Returned(call[1]) /\ call[1].failed = "compile"
    /\ call[1].out_path = TmpOut
    /\ call[1].pre[TmpOut] = File(OldContent)
    /\ fs[TmpOut] = File(OldContent)

\* C4: a call whose destination's parent directory does not exist returns 0,
\* never 1, and no file exists at the destination during or after the call,
\* whatever the LaTeX source is.
C4_MissingParentFails ==
    \A t \in Threads :
        LET c == call[t]
            p == c.output_path.chars
        IN (Invoked(c) /\ c.output_path.kind = "string" /\ Parent(p) \notin Dirs)
              => /\ ~fs[p].exists
                 /\ Returned(c) => c.ret = 0

C4_Witness ==
    /\ Returned(call[1]) /\ call[1].latex = DocHello
    /\ call[1].out_path = NoDirOut /\ call[1].failed = "create"
    /\ call[1].ret = 0

\* C5: when a call has returned 1 the destination file exists and holds
\* exactly the bytes the engine returned for the call's source, with nothing
\* left of a file that was there before.
C5_SuccessWritesExactBytes ==
    \A t \in Threads :
        LET c == call[t] IN
        (Returned(c) /\ c.ret = 1)
            => /\ c.out_path \in Paths
               /\ LatexToPdf(c.latex).out = "ok"
               /\ fs[c.out_path] = File(LatexToPdf(c.latex).bytes)

C5_Witness ==
    /\ Returned(call[1]) /\ call[1].ret = 1
    /\ call[1].pre[call[1].out_path] = File(OldContent)

\* C6: two runs that agree on the source, the path and the environment and
\* differ in the cache_dir handle are in the same place, have the same
\* return value and the same filesystem at every step.
C6_CacheDirNotConsulted ==
    /\ twin.fs = fs
    /\ \A t \in Threads :
          /\ twin.call[t].pc = call[t].pc
          /\ twin.call[t].ret = call[t].ret
          /\ twin.call[t].latex_src = call[t].latex_src
          /\ twin.call[t].output_path = call[t].output_path
          /\ Invoked(call[t]) => twin.call[t].cache_dir # call[t].cache_dir

C6_Witness ==
    /\ Returned(call[1]) /\ call[1].ret = 1
    /\ call[1].cache_dir.kind = "string"
    /\ twin.call[1].cache_dir = NullHandle
    /\ Returned(twin.call[1])

\* The steps a call has run are a prefix of the fixed order (so each ran at
\* most once, in order), the step that failed is the last one run, and a call
\* past the closure with no failure ran all five.
FixedOrderNoRetry(c) ==
    /\ IsPrefix(c.steps, StepOrder)
    /\ c.failed # "none"
          => /\ c.steps # <<>>
             /\ c.steps[Len(c.steps)] = c.failed
             /\ c.pc \in {"match", "returned"}
    /\ (c.pc \in {"match", "returned"} /\ c.failed = "none")
          => c.steps = StepOrder

\* C7: every invocation moves from Running to exactly one of Succeeded and
\* Failed and returns one boolean: a call that has not returned can take its
\* next step, a call that has returned is in exactly one of the two states
\* and takes no further step; the steps run in the fixed order, each at most
\* once, and the first failing step ends the call.
C7_EveryCallReachesOneOutcome ==
    \A t \in Threads :
        LET c == call[t] IN
        /\ FixedOrderNoRetry(c)
        /\ (Invoked(c) /\ ~Returned(c))
              => (CallState(c) = "Running" /\ ENABLED Step(t))
        /\ Returned(c)
              => /\ c.ret \in {0, 1}
                 /\ CallState(c) \in {"Succeeded", "Failed"}
                 /\ (CallState(c) = "Succeeded") = (c.failed = "none")
                 /\ ~ENABLED Step(t)

\* C8: of two successive calls with the same source and the same destination
\* in which no step failed, both return 1 and the destination file holds
\* after the second what it held after the first.
C8_Idempotent ==
    \A t \in Threads :
        LET c == call[t] IN
        (/\ Returned(c) /\ last.valid
         /\ c.latex_src = last.latex_src /\ c.output_path = last.output_path
         /\ c.failed = "none" /\ last.failed = "none")
            => /\ last.ret = 1 /\ c.ret = 1
               /\ fs[c.out_path] = last.content

C8_Witness ==
    /\ Returned(call[1]) /\ last.valid
    /\ call[1].latex_src = last.latex_src
    /\ call[1].output_path = last.output_path
    /\ call[1].failed = "none" /\ last.failed = "none"
    /\ last.content = File(<<1, 2, 3>>)

\* C9: a call whose write_all failed returns 0 and leaves the destination
\* file in existence holding a proper prefix of the PDF bytes; no other
\* failed call changes the filesystem.
C9_WriteFailureLeavesPrefix ==
    \A t \in Threads :
        LET c == call[t] IN
        /\ (Returned(c) /\ c.failed = "write")
              => /\ c.ret = 0
                 /\ fs[c.out_path].exists
                 /\ IsProperPrefix(fs[c.out_path].bytes, c.pdf_bytes)
        /\ (Returned(c) /\ c.ret = 0 /\ fs # c.pre) => c.failed = "write"

C9_Witness ==
    /\ Returned(call[1]) /\ call[1].failed = "write"
    /\ call[1].pre[TmpOut] = File(OldContent)
    /\ fs[TmpOut] = File(<<1, 2>>)

\* C10 as stated: once two concurrent calls on the same destination with
\* different sources have both returned 1, the file holds the complete PDF
\* of one of the two.
C10_ConcurrentOneOfTwo == BothReturnedTrue => OneOfTheTwoPdfs

\* C10 as amended: the same, for two calls whose create..write windows did
\* not overlap (neither created the file while the other held it open).
C10_SerializedOneOfTwo ==
    (BothReturnedTrue /\ ~overlap[1] /\ ~overlap[2]) => OneOfTheTwoPdfs

C10_Witness ==
    /\ BothReturnedTrue /\ ~overlap[1] /\ ~overlap[2]
    /\ fs[TmpOut] = File(<<4>>)
    /\ call[1].pdf_bytes = <<4>>
    /\ call[2].pre[TmpOut] = File(OldContent)

====
